---- MODULE Spec2Model ----
(***************************************************************************)
(* Verification model of the retrieval / routing engine of                 *)
(* src/backend/core.py: QueryCache, CategorizedQASystem._search,           *)
(* _get_llm, _generate_answer and ask.                                     *)
(***************************************************************************)
EXTENDS Integers, Sequences, FiniteSets, TLC

VARIABLES
    \* ---- QueryCache (core.py 465-542) ----
    cfg,        \* CacheConfig: [enabled, backend]
    cache,      \* self.cache, an insertion-ordered dict: Seq of [key, obj, ts]
    heap,       \* the QueryResult objects, by identity: obj -> [answer, from_cache]
    nextObj,    \* next QueryResult identity to allocate
    file,       \* the persisted cache file: [state, data], state "absent", "corrupt" or "written"
    now,        \* datetime.now().timestamp()
    ret,        \* the value returned by the last cache call (0 is None)
    lastOp,     \* history: what the last cache call was and what it saw
    setValue,   \* history: obj -> the value the object had when passed to set
    lastAccess, \* history: key -> time of its set or of its latest successful get
    savers      \* thread -> the set call it is in: [pc, data, failed]

VARIABLES
    \* ---- CategorizedQASystem.ask and the completion router (core.py 929-1375) ----
    env,        \* os.environ after _bootstrap_llm_env: [provider, primary, fallback, profile]
    health,     \* provider -> Ok, or the message its completion call raises
    buildOk,    \* provider -> whether constructing its client succeeds
    llmCache,   \* the lru_cache of _get_llm: set of <<model argument, client>>
    req,        \* the arguments of the running ask: [query, mode, user]
    pc,         \* position of the running ask
    ctx,        \* what _search returned: [count, sourced]
    llm,        \* the client chosen for the running _generate_answer
    answer,     \* the answer being built
    calls,      \* completion invocations made by the running ask, in order
    result      \* what ask handed to its caller: a result tuple, or an exception

VARIABLES
    \* ---- CategorizedQASystem._search (core.py 1048-1165) ----
    top_k,      \* the top_k argument
    reranker,   \* Reranker._type: "none", "local" or "cohere"
    variants,   \* len(search_queries), 1 to 5
    vi,         \* index of the query variant being searched
    stage,      \* "keyword", "bm25", "vector" while fanning out, then "rerank", "done"; "raised"
    nhits,      \* hits of the current backend call already looped over
    results,    \* the results list
    seen,       \* seen_contents
    found,      \* the list _search returned
    epoch,      \* how many times initialize has built _vectordb, _bm25, _keyword_index
    reloading   \* reload(): "idle", "reset", "initialized" or "done"

VARIABLES
    \* ---- KeywordIndex (core.py 363-459) ----
    index,      \* self.index, an insertion-ordered dict: Seq of [kw, posts]
    doc_keywords, \* self.doc_keywords: doc -> the keywords of its latest text
    lock,       \* self._lock: "free", or the thread inside add_document's with block
    adders,     \* thread -> its add_document call: [pc, doc, w, todo, done, replaced]
    nadds,      \* number of add_document calls started
    ks          \* the thread running search: [pc, terms, todo, term, pos, size, scores, stale,
                \* order, ranked]; order is the key order of doc_scores, ranked the list returned

indexVars == <<index, doc_keywords, lock, adders, nadds, ks>>

searchVars == <<top_k, reranker, variants, vi, stage, nhits, results, seen, found,
                epoch, reloading>>

cacheVars == <<cfg, cache, heap, nextObj, file, now, ret, lastOp, setValue, lastAccess,
               savers>>

askVars == <<env, health, buildOk, llmCache, req, pc, ctx, llm, answer, calls, result>>

vars == <<cacheVars, askVars, searchVars, indexVars>>

----------------------------------------------------------------------------
(* Bounds *)
TTL == 2
MaxSize == 2
MaxTime == 2
MaxObjs == 3

None == 0

----------------------------------------------------------------------------
(* Strings are sequences of characters. *)
QuerySet == { <<"x">>, <<"x", ":", "m", ":", "y">> }
ModeSet == { <<"m">> }
UserSet == { <<"z">>, <<"y", ":", "m", ":", "z">> }

Tuples == QuerySet \X ModeSet \X UserSet

\* hashlib.md5(s).hexdigest(): a digest of the string, collisions set aside
Md5(s) == <<"md5", s>>

\* QueryCache._make_key: md5 of f"{query}:{mode}:{user_id}"
_make_key(query, mode, user_id) ==
    Md5(query \o <<":">> \o mode \o <<":">> \o user_id)

KeyOf(t) == _make_key(t[1], t[2], t[3])

----------------------------------------------------------------------------
(* The insertion-ordered dict self.cache *)

\* position of key k in dict c, 0 when absent
IndexOf(c, k) ==
    IF \E i \in 1..Len(c) : c[i].key = k
    THEN CHOOSE i \in 1..Len(c) : c[i].key = k
    ELSE 0

HasKey(c, k) == IndexOf(c, k) # 0

\* del c[k]
DictDel(c, k) ==
    LET i == IndexOf(c, k)
    IN  IF i = 0 THEN c
        ELSE SubSeq(c, 1, i - 1) \o SubSeq(c, i + 1, Len(c))

\* c[k] = (obj, ts): replaces in place, or appends a new key
DictPut(c, k, obj, ts) ==
    LET i == IndexOf(c, k)
        e == [key |-> k, obj |-> obj, ts |-> ts]
    IN  IF i = 0 THEN Append(c, e)
        ELSE [c EXCEPT ![i] = e]

\* a variant of OldestIndex that takes max() instead of min()
NewestIndex(c) ==
    CHOOSE i \in 1..Len(c) :
        /\ \A j \in 1..Len(c) : c[i].ts >= c[j].ts
        /\ \A j \in 1..(i - 1) : c[j].ts < c[i].ts

\* min(self.cache.items(), key=lambda x: x[1][1]): the first entry, in
\* iteration order, that has the least timestamp
OldestIndex(c) ==
    CHOOSE i \in 1..Len(c) :
        /\ \A j \in 1..Len(c) : c[i].ts <= c[j].ts
        /\ \A j \in 1..(i - 1) : c[j].ts > c[i].ts

\* QueryCache.set, the part under the lock: evict when full, then store
NoKey == <<>>

SetEvictKey(c) ==
    IF Len(c) >= MaxSize /\ Len(c) > 0 THEN c[OldestIndex(c)].key ELSE NoKey

SetCache(c, k, obj, t) ==
    LET c1 == IF Len(c) >= MaxSize /\ Len(c) > 0
              THEN DictDel(c, c[OldestIndex(c)].key)
              ELSE c
    IN  DictPut(c1, k, obj, t)

\* a variant of IsFresh that compares with <= instead of <
IsFreshInclusive(t, ts) == t - ts <= TTL

\* QueryCache.get: the freshness test of line 489
IsFresh(t, ts) == t - ts < TTL

\* asdict(result) for every entry, as json.dump writes it
Snapshot(c, h) ==
    [i \in 1..Len(c) |-> [key |-> c[i].key, value |-> h[c[i].obj], ts |-> c[i].ts]]

----------------------------------------------------------------------------
NoOp == [op |-> "none"]

\* the threads on which the server runs its request handlers
Threads == {"w1", "w2"}

\* a thread that is not inside QueryCache.set
IdleSaver == [pc |-> "idle", data |-> <<>>, failed |-> FALSE]

FreeObj == [answer |-> <<>>, from_cache |-> FALSE]

\* the cache file: not there, unreadable, or holding what json.dump wrote
NoFile == [state |-> "absent", data |-> <<>>]

CorruptFile == [state |-> "corrupt", data |-> <<>>]

FileWith(snapshot) == [state |-> "written", data |-> snapshot]

\* QueryCache.__init__ with no persisted file present
EmptyCache ==
    /\ cache = <<>>
    /\ heap = [o \in 1..MaxObjs |-> FreeObj]
    /\ nextObj = 1
    /\ file = NoFile
    /\ now = 0
    /\ ret = None
    /\ lastOp = NoOp
    /\ setValue = [o \in 1..MaxObjs |-> FreeObj]
    /\ lastAccess = [x \in {} |-> 0]
    /\ savers = [th \in Threads |-> IdleSaver]

\* QueryCache._save_file_cache: writes the snapshot; a failure is logged and
\* swallowed, leaving the file as it was (open failed) or truncated
SaveFileCache(c, h) ==
    \/ file' = FileWith(Snapshot(c, h))
    \/ file' = file
    \/ file' = CorruptFile

\* a variant of AfterSave that undoes the store when the write failed
AfterSaveUndo(c0, c1, written) == IF written THEN c1 ELSE c0

\* QueryCache.set, lines 508-511, and _save_file_cache, lines 532-533: the
\* entry is stored before the file is written and a failed write is logged
\* and swallowed, so self.cache after set is c1 whether or not the file was
\* written (c0 is self.cache before the call)
AfterSave(c0, c1, written) == c1

\* objects the cache or the last caller still refers to; the others are
\* reclaimed by reference counting
Reachable(c, r) == { c[i].obj : i \in 1..Len(c) } \cup ({r} \ {None})

Collect(h, c, r) ==
    [o \in 1..MaxObjs |-> IF o \in Reachable(c, r) THEN h[o] ELSE FreeObj]

\* history of accesses, kept for the keys that are in the cache; key k is
\* accessed at time t
Accessed(acc, c, k, t) ==
    [x \in { c[i].key : i \in 1..Len(c) } |->
        IF x = k THEN t ELSE IF x \in DOMAIN acc THEN acc[x] ELSE t]

\* QueryCache.set(query, mode, result, user_id), where result is a
\* QueryResult the caller has just constructed with the answer ans
DoSet(t, ans) ==
    /\ nextObj <= MaxObjs
    /\ LET k == KeyOf(t)
           obj == nextObj
           val == [answer |-> ans, from_cache |-> FALSE]
           h1 == [heap EXCEPT ![obj] = val]
       IN  /\ nextObj' = nextObj + 1
           /\ ret' = None
           /\ lastOp' = [op |-> "set", tuple |-> t,
                         evicted |-> IF cfg.enabled THEN SetEvictKey(cache) ELSE NoKey]
           /\ IF ~cfg.enabled
              THEN /\ UNCHANGED <<cache, file>>
              ELSE LET c1 == SetCache(cache, k, obj, now)
                   IN  IF cfg.backend = "file"
                       THEN /\ SaveFileCache(c1, h1)
                            /\ cache' = AfterSave(cache, c1, file' = FileWith(Snapshot(c1, h1)))
                       ELSE /\ cache' = c1
                            /\ UNCHANGED file
           /\ heap' = Collect(h1, cache', None)
           /\ setValue' = [o \in 1..MaxObjs |->
                             IF o \notin Reachable(cache', None) THEN FreeObj
                             ELSE IF o = obj THEN val ELSE setValue[o]]
           /\ lastAccess' = Accessed(lastAccess, cache', k, now)
    /\ UNCHANGED <<cfg, now, savers>>

\* QueryCache.get(query, mode, user_id)
DoGet(t) ==
    /\ LET k == KeyOf(t)
           i == IndexOf(cache, k)
       IN  /\ lastOp' = [op |-> "get", tuple |-> t,
                         outcome |-> IF ~cfg.enabled THEN "off"
                                     ELSE IF i = 0 THEN "miss"
                                     ELSE IF IsFresh(now, cache[i].ts) THEN "hit"
                                     ELSE "expired"]
           /\ IF ~cfg.enabled \/ i = 0
              THEN /\ ret' = None
                   /\ UNCHANGED cache
                   /\ heap' = Collect(heap, cache, None)
                   /\ UNCHANGED lastAccess
              ELSE IF IsFresh(now, cache[i].ts)
                   THEN /\ heap' = Collect([heap EXCEPT ![cache[i].obj].from_cache = TRUE],
                                           cache, None)
                        /\ ret' = cache[i].obj
                        /\ lastAccess' = Accessed(lastAccess, cache, k, now)
                        /\ UNCHANGED cache
                   ELSE /\ cache' = DictDel(cache, k)
                        /\ ret' = None
                        /\ heap' = Collect(heap, cache', None)
                        /\ lastAccess' = Accessed(lastAccess, cache', NoKey, now)
           /\ setValue' = [o \in 1..MaxObjs |->
                             IF o \in Reachable(cache', None) THEN setValue[o] ELSE FreeObj]
    /\ UNCHANGED <<cfg, nextObj, file, now, savers>>

\* a caller stores the answer it computed for the tuple t
CacheSet(t) == DoSet(t, t) /\ UNCHANGED <<askVars, searchVars, indexVars>>

CacheGet(t) == DoGet(t) /\ UNCHANGED <<askVars, searchVars, indexVars>>

\* QueryCache.clear
DoClear ==
    /\ cache' = <<>>
    /\ file' = IF cfg.backend = "file" THEN NoFile ELSE file
    /\ ret' = None
    /\ lastOp' = [op |-> "clear"]
    /\ heap' = Collect(heap, <<>>, None)
    /\ setValue' = [o \in 1..MaxObjs |-> FreeObj]
    /\ lastAccess' = Accessed(lastAccess, <<>>, NoKey, now)
    /\ UNCHANGED <<cfg, nextObj, now, savers>>

\* a caller clears the cache
CacheClear ==
    /\ DoClear
    /\ UNCHANGED <<askVars, searchVars, indexVars>>

\* the wall clock advances
Tick ==
    /\ now < MaxTime
    /\ now' = now + 1
    /\ UNCHANGED <<cfg, cache, heap, nextObj, file, ret, lastOp, setValue, lastAccess,
                   savers>>
    /\ UNCHANGED <<askVars, searchVars, indexVars>>

----------------------------------------------------------------------------
(* The completion router: environment, _get_llm, error classification *)

Providers == {"anthropic", "openai"}

SlotOrder == <<"COMPLEX", "SIMPLE", "BUSINESS", "PERSONAL", "DEFAULT">>

Slots == { SlotOrder[i] : i \in 1..Len(SlotOrder) }

Profiles == {"distinct", "shared"}

\* os.getenv("ANTHROPIC_MODEL_<slot>") / os.getenv("OPENAI_MODEL_<slot>"):
\* either every slot names its own model, or all slots but COMPLEX share one
ProviderModel(profile, p, slot) ==
    IF profile = "distinct" THEN <<p, slot>>
    ELSE IF slot = "COMPLEX" THEN <<p, "big">> ELSE <<p, "small">>

\* python's `a or b or c` over strings
Or3(a, b, c) == IF a # <<>> THEN a ELSE IF b # <<>> THEN b ELSE c

\* _bootstrap_llm_env: the provider whose models fill LLM_MODEL_*
ProviderForModels(e) == IF e.provider = "auto" THEN e.primary ELSE e.provider

\* os.getenv("LLM_MODEL_<slot>") after _bootstrap_llm_env
LlmModelEnv(e, slot) == ProviderModel(e.profile, ProviderForModels(e), slot)

\* config.resolve_llm_model(kind, ...)
resolve_llm_model(e, kind) ==
    Or3(ProviderModel(e.profile, ProviderForModels(e), kind), LlmModelEnv(e, kind), <<>>)

\* config.get_llm_config(query_type, complexity).model, through LLM_CONFIGS
TierOf(doc_type, complexity) ==
    IF doc_type = "technical"
    THEN (IF complexity = "complex" THEN "COMPLEX" ELSE "SIMPLE")
    ELSE "DEFAULT"

get_llm_config(e, doc_type, complexity) ==
    resolve_llm_model(e, TierOf(doc_type, complexity))

\* _get_llm._infer_slot
_infer_slot(e, m) ==
    LET hits == { i \in 1..Len(SlotOrder) : LlmModelEnv(e, SlotOrder[i]) = m }
    IN  IF hits = {} THEN "DEFAULT"
        ELSE SlotOrder[CHOOSE i \in hits : \A j \in hits : i <= j]

\* _get_llm._pick_model_for
_pick_model_for(e, provider_name, slot, primary_model) ==
    Or3(ProviderModel(e.profile, provider_name, slot),
        ProviderModel(e.profile, provider_name, "DEFAULT"),
        primary_model)

NoClient == [provider |-> "none", model |-> <<>>]

Raise == [ok |-> FALSE, client |-> NoClient]

\* _get_llm._build: constructs the provider's chat client, or raises
_build(bo, provider_name, model_name) ==
    IF bo[provider_name]
    THEN [ok |-> TRUE, client |-> [provider |-> provider_name, model |-> model_name]]
    ELSE Raise

\* _get_llm, the body behind the lru_cache
_get_llm(e, bo, model) ==
    LET slot == _infer_slot(e, model)
    IN  IF e.provider = "auto"
        THEN LET primary_model == _pick_model_for(e, e.primary, slot, model)
                 fallback_model == _pick_model_for(e, e.fallback, slot, model)
                 first == _build(bo, e.primary, primary_model)
             IN  IF first.ok THEN first
                 ELSE _build(bo, e.fallback, fallback_model)
        ELSE LET model_name == IF e.provider # "openai"
                               THEN _pick_model_for(e, e.provider, slot, model)
                               ELSE model
             IN  _build(bo, e.provider, model_name)

\* @lru_cache(maxsize=12) around _get_llm: a call that returned is replayed,
\* a call that raised is made again (the temperature argument is 0.1 on
\* every path of ask)
LruGetLlm(lc, e, bo, model) ==
    IF \E pr \in lc : pr[1] = model
    THEN [ok |-> TRUE, client |-> (CHOOSE pr \in lc : pr[1] = model)[2]]
    ELSE _get_llm(e, bo, model)

LruAfter(lc, model, r) == IF r.ok THEN lc \cup {<<model, r.client>>} ELSE lc

\* messages of the exceptions a completion call raises
MsgUsageLimits == <<"u", "s", "a", "g", "e", " ", "l", "i", "m", "i", "t", "s">>
MsgQuota == <<"Q", "u", "o", "t", "a">>
MsgRateLimit == <<"R", "a", "t", "e", " ", "L", "i", "m", "i", "t">>
MsgTimeout == <<"t", "i", "m", "e", "o", "u", "t">>
MsgNoModel == <<"n", "o", " ", "m", "o", "d", "e", "l">>

\* the failures a provider is taken to answer with
ProviderErrors == {MsgQuota, MsgRateLimit, MsgTimeout}

\* str.lower()
LowerChar(ch) ==
    CASE ch = "Q" -> "q" [] ch = "R" -> "r" [] ch = "L" -> "l" [] OTHER -> ch

Lower(str) == [i \in 1..Len(str) |-> LowerChar(str[i])]

\* python's `pat in str`
Contains(str, pat) ==
    \E i \in 1..(Len(str) - Len(pat) + 1) : SubSeq(str, i, i + Len(pat) - 1) = pat

\* a variant of IsQuotaError that takes every failure for a quota failure
IsAnyError(error_msg) == Len(error_msg) > 0

\* _generate_answer, line 1231: is the failure a quota / rate-limit one
IsQuotaError(error_msg) ==
    \/ Contains(error_msg, MsgUsageLimits)
    \/ Contains(Lower(error_msg), <<"q", "u", "o", "t", "a">>)
    \/ Contains(Lower(error_msg), <<"r", "a", "t", "e", " ", "l", "i", "m", "i", "t">>)

\* a completion call that returns
Ok == <<"o", "k">>

\* llm.invoke(prompt): Ok, or the message of the exception raised; a
\* provider asked for a model that is not one of its own refuses
Invoke(h, e, client) ==
    IF h[client.provider] # Ok THEN h[client.provider]
    ELSE IF \E sl \in Slots : client.model = ProviderModel(e.profile, client.provider, sl)
         THEN Ok
         ELSE MsgNoModel

Call(site, client, outcome) ==
    [site |-> site, provider |-> client.provider, model |-> client.model,
     outcome |-> outcome]

----------------------------------------------------------------------------
(* Queries, complexity, classification *)

\* COMPLEXITY_THRESHOLDS (config.py 450-454)
query_length == 100
model_count == 2
doc_count_threshold == 5

\* a query, by what the code looks at: its text, its length, the product
\* models found in it, the keyword classes it contains
Query(text, len, products, cmp, ana, biz, tech) ==
    [text |-> text, len |-> len, products |-> products, cmp |-> cmp, ana |-> ana,
     biz |-> biz, tech |-> tech]

QBlank == Query(<<" ">>, 0, 0, FALSE, FALSE, 0, 0)
QPlain == Query(<<"p">>, 10, 0, FALSE, FALSE, 0, 0)
QModel == Query(<<"m">>, 10, 1, FALSE, FALSE, 0, 0)
QCompare == Query(<<"c">>, 101, 2, TRUE, FALSE, 0, 1)
QSales == Query(<<"s">>, 10, 0, FALSE, FALSE, 1, 0)
QPair == Query(<<"d">>, 10, 2, FALSE, FALSE, 0, 0)

AskQueries == {QBlank, QPlain, QModel, QCompare, QSales}

AskUsers == {"default", "u1"}

\* the requests asked: (query, mode, user_id)
Requests ==
    (AskQueries \X {"smart"} \X AskUsers)
    \cup ({QPlain, QCompare, QPair} \X {"technical"} \X {"default"})
    \cup ({QPlain} \X {"personal"} \X {"u1"})

\* estimate_complexity(query, doc_count)
estimate_complexity(query, doc_count) ==
    IF \/ query.len > query_length
       \/ query.products >= model_count
       \/ query.cmp
       \/ query.ana
       \/ doc_count > doc_count_threshold
    THEN "complex" ELSE "simple"

\* QueryClassifier.classify_query
classify_query(query) ==
    LET tech_score == query.tech + (IF query.products > 0 THEN 3 ELSE 0)
    IN  IF query.biz > tech_score THEN "business"
        ELSE IF tech_score > 0 THEN "technical"
        ELSE "mixed"

\* ask, lines 1340-1345: the document type of a request that is not personal
DocTypeOf(r) ==
    IF r.mode = "smart" THEN classify_query(r.query)
    ELSE IF r.mode \in {"technical", "business"} THEN r.mode
    ELSE "technical"

\* the (query, mode, user_id) strings the cache key is made of
ReqTuple(r) == <<r.query.text, <<r.mode>>, <<r.user>>>>

----------------------------------------------------------------------------
(* CategorizedQASystem.ask *)

NoReq == [query |-> QBlank, mode |-> "none", user |-> "none"]

NoCtx == [doc_type |-> "none", count |-> 0, sourced |-> FALSE, epoch |-> 0]

NoAnswer == [kind |-> "none"]

NoResult == [kind |-> "none"]

Docs == {"d1", "d2"}

IdleAdder == [pc |-> "idle", doc |-> "", w |-> 0, todo |-> {}, done |-> {}, replaced |-> FALSE]

IdleSearch ==
    [pc |-> "idle", terms |-> {}, todo |-> {}, term |-> <<>>, pos |-> 0, size |-> 0,
     scores |-> [d \in Docs |-> 0], stale |-> FALSE,
     order |-> <<>>, ranked |-> <<>>]

\* KeywordIndex.__init__ with no index file: an empty index, nobody inside
NoIndex ==
    /\ index = <<>>
    /\ doc_keywords = [d \in Docs |-> {}]
    /\ lock = "free"
    /\ adders = [t \in Threads |-> IdleAdder]
    /\ nadds = 0
    /\ ks = IdleSearch

\* no search is running
NoSearch ==
    /\ top_k = 0
    /\ reranker = "none"
    /\ variants = 0
    /\ vi = 0
    /\ stage = "off"
    /\ nhits = 0
    /\ results = <<>>
    /\ seen = {}
    /\ found = <<>>
    /\ epoch = 0
    /\ reloading = "idle"

\* no ask is running
NoAsk ==
    /\ env = [provider |-> "openai", primary |-> "none", fallback |-> "none",
              profile |-> "distinct"]
    /\ health = [p \in Providers |-> Ok]
    /\ buildOk = [p \in Providers |-> TRUE]
    /\ llmCache = {}
    /\ req = NoReq
    /\ pc = "off"
    /\ ctx = NoCtx
    /\ llm = NoClient
    /\ answer = NoAnswer
    /\ calls = <<>>
    /\ result = NoResult

\* LLM_PROVIDER, LLM_PRIMARY, LLM_FALLBACK as _bootstrap_llm_env leaves them
\* _bootstrap_llm_env._norm_provider(p, default): p is the value of the
\* variable after strip().lower(), "" when it is unset or empty
_norm_provider(p, default) ==
    IF p \in {"claude", "anthropic"} THEN "anthropic"
    ELSE IF p \in {"openai", "gpt"} THEN "openai"
    ELSE default

\* what the process environment can hold at import: LLM_PROVIDER, LLM_PRIMARY
\* and LLM_FALLBACK as written by the operator, whether ANTHROPIC_API_KEY is
\* set, and how the model names are filled in
RawEnvs ==
    [LLM_PROVIDER : {"openai", "anthropic", "auto"},
     LLM_PRIMARY : {"", "claude", "openai", "bogus"},
     LLM_FALLBACK : {"", "anthropic", "gpt", "bogus"},
     ANTHROPIC_API_KEY : BOOLEAN,
     profile : Profiles]

\* _bootstrap_llm_env: the routing it leaves in os.environ; LLM_PRIMARY and
\* LLM_FALLBACK are resolved in auto mode only and are not read otherwise
_bootstrap_llm_env(raw) ==
    IF raw.LLM_PROVIDER = "auto"
    THEN LET primary == _norm_provider(raw.LLM_PRIMARY,
                            IF raw.ANTHROPIC_API_KEY THEN "anthropic" ELSE "openai")
             fallback == _norm_provider(raw.LLM_FALLBACK,
                            IF primary = "anthropic" THEN "openai" ELSE "anthropic")
         IN  [provider |-> "auto", primary |-> primary, fallback |-> fallback,
              profile |-> raw.profile]
    ELSE [provider |-> raw.LLM_PROVIDER, primary |-> "none", fallback |-> "none",
          profile |-> raw.profile]

Envs == { _bootstrap_llm_env(raw) : raw \in RawEnvs }

\* the tuple ask returns
Returned(ans, source_type, from_cache) ==
    [kind |-> "returned", answer |-> ans, source_type |-> source_type,
     from_cache |-> from_cache]

Raised == [kind |-> "raised"]

\* the text of a completion
LlmAnswer(client, nf) ==
    [kind |-> "llm", provider |-> client.provider, model |-> client.model,
     not_found_text |-> nf, footer |-> FALSE]

Text(kind) == [kind |-> kind, footer |-> FALSE]

ErrorText(kind, msg) == [kind |-> kind, msg |-> msg, footer |-> FALSE]

\* _ask_personal(query, user_id): kb is what the personal knowledge base
\* does, nf whether the completion's text contains the words "not found"
KbOutcomes == {"disabled", "no_docs", "no_results", "kb_error", "found"}

_ask_personal(kb, nf) ==
    LET keep == [calls |-> calls, llmCache |-> llmCache]
    IN  CASE kb = "disabled" ->
               [answer |-> Text("personal_disabled"), source_type |-> "error"] @@ keep
          [] kb = "no_docs" ->
               [answer |-> Text("no_docs"), source_type |-> "personal"] @@ keep
          [] kb = "no_results" ->
               [answer |-> Text("no_results"), source_type |-> "personal"] @@ keep
          [] kb = "kb_error" ->
               [answer |-> ErrorText("query_failed", MsgTimeout),
                source_type |-> "error"] @@ keep
          [] kb = "found" ->
               LET personal_model == LlmModelEnv(env, "PERSONAL")
                   r == LruGetLlm(llmCache, env, buildOk, personal_model)
                   out == Invoke(health, env, r.client)
               IN  IF ~r.ok
                   THEN [answer |-> ErrorText("query_failed", MsgNoModel),
                         source_type |-> "error"] @@ keep
                   ELSE [answer |-> IF out = Ok THEN LlmAnswer(r.client, nf)
                                    ELSE ErrorText("query_failed", out),
                         source_type |-> IF out = Ok THEN "personal" ELSE "error",
                         calls |-> Append(calls, Call("personal", r.client, out)),
                         llmCache |-> LruAfter(llmCache, personal_model, r)]

\* ask, line 1328: "未找到" in answer or "尚無文件" in answer
SaysNotFound(ans) ==
    \/ ans.kind \in {"no_docs", "no_results"}
    \/ ans.kind = "llm" /\ ans.not_found_text

\* ask, lines 1310-1323: the blank-query test and the cache lookup
AskStart(q, m, u) ==
    /\ UNCHANGED <<searchVars, indexVars>>
    /\ pc = "idle"
    /\ LET r == [query |-> q, mode |-> m, user |-> u]
       IN  /\ req' = r
           /\ calls' = <<>>
           /\ IF q.len = 0
              THEN /\ result' = Returned(Text("invalid"), "error", FALSE)
                   /\ pc' = "done"
                   /\ UNCHANGED cacheVars
              ELSE /\ DoGet(ReqTuple(r))
                   /\ IF ret' # None
                      THEN /\ result' = Returned(heap'[ret'].answer.answer,
                                                 heap'[ret'].answer.source_type, TRUE)
                           /\ pc' = "done"
                      ELSE /\ result' = NoResult
                           /\ pc' = IF m = "smart" /\ u # "default"
                                    THEN "personal_first" ELSE "classify"
    /\ UNCHANGED <<env, health, buildOk, llmCache, ctx, llm, answer>>

\* ask, lines 1326-1337: smart mode asks the personal knowledge base first
AskPersonalFirst(kb, nf) ==
    /\ UNCHANGED <<searchVars, indexVars>>
    /\ pc = "personal_first"
    /\ nf => kb = "found"
    /\ LET pr == _ask_personal(kb, nf)
       IN  /\ calls' = pr.calls
           /\ llmCache' = pr.llmCache
           /\ IF ~SaysNotFound(pr.answer)
              THEN /\ DoSet(ReqTuple(req),
                            [answer |-> pr.answer, source_type |-> "personal"])
                   /\ result' = Returned(pr.answer, pr.source_type, FALSE)
                   /\ pc' = "done"
              ELSE /\ pc' = "classify"
                   /\ UNCHANGED <<cacheVars, result>>
    /\ UNCHANGED <<env, health, buildOk, req, ctx, llm, answer>>

\* ask, lines 1342-1343: personal mode
AskPersonalMode(kb, nf) ==
    /\ UNCHANGED <<searchVars, indexVars>>
    /\ pc = "classify"
    /\ req.mode = "personal"
    /\ nf => kb = "found"
    /\ LET pr == _ask_personal(kb, nf)
       IN  /\ calls' = pr.calls
           /\ llmCache' = pr.llmCache
           /\ result' = Returned(pr.answer, pr.source_type, FALSE)
           /\ pc' = "done"
    /\ UNCHANGED <<cacheVars, env, health, buildOk, req, ctx, llm, answer>>

\* ask, lines 1348-1349, and _ask_business: the business engine answers,
\* finds nothing, or fails; each outcome is returned as a result
BusinessOutcomes == {"answer", "empty", "error"}

AskBusiness(b) ==
    /\ UNCHANGED <<searchVars, indexVars>>
    /\ pc = "classify"
    /\ req.mode # "personal"
    /\ DocTypeOf(req) = "business"
    /\ result' = Returned([kind |-> "business", outcome |-> b, footer |-> FALSE],
                          IF b = "error" THEN "error" ELSE "business", FALSE)
    /\ pc' = "done"
    /\ UNCHANGED <<cacheVars, env, health, buildOk, llmCache, req, ctx, llm, answer, calls>>

\* ask, lines 1352-1355: _search returns n results; sourced tells whether
\* any of them names a source file
SearchCounts == {0, 1, 6}

\* a variant of AfterSearch that generates an answer from no results
AfterSearchAlways(n) == "get_llm"

\* ask, lines 1354-1358: where ask goes after _search returned n results
AfterSearch(n) == IF n = 0 THEN "done" ELSE "get_llm"

AskSearch(n, sourced) ==
    /\ UNCHANGED <<searchVars, indexVars>>
    /\ pc = "classify"
    /\ req.mode # "personal"
    /\ DocTypeOf(req) # "business"
    /\ n = 0 => ~sourced
    /\ reloading = "reset" => n = 0
    /\ ctx' = [doc_type |-> DocTypeOf(req), count |-> n, sourced |-> sourced,
               epoch |-> epoch]
    /\ pc' = AfterSearch(n)
    /\ IF n = 0
       THEN result' = Returned(Text("not_found"), DocTypeOf(req), FALSE)
       ELSE UNCHANGED result
    /\ UNCHANGED <<cacheVars, env, health, buildOk, llmCache, req, llm, answer, calls>>

\* _generate_answer, lines 1175-1177: the client is obtained outside any
\* try block, so a failing construction leaves ask as an exception
GenGetLlm ==
    /\ UNCHANGED <<searchVars, indexVars>>
    /\ pc = "get_llm"
    /\ LET complexity == estimate_complexity(req.query, ctx.count)
           model == get_llm_config(env, ctx.doc_type, complexity)
           r == LruGetLlm(llmCache, env, buildOk, model)
       IN  /\ llmCache' = LruAfter(llmCache, model, r)
           /\ IF r.ok
              THEN /\ llm' = r.client
                   /\ pc' = "invoke"
                   /\ UNCHANGED result
              ELSE /\ result' = Raised
                   /\ pc' = "done"
                   /\ UNCHANGED llm
    /\ UNCHANGED <<cacheVars, env, health, buildOk, req, ctx, answer, calls>>

\* _generate_answer, lines 1225-1232 and 1256-1258: the first completion
\* call and the classification of its failure
GenInvoke ==
    /\ UNCHANGED <<searchVars, indexVars>>
    /\ pc = "invoke"
    /\ LET out == Invoke(health, env, llm)
       IN  /\ calls' = Append(calls, Call("generate", llm, out))
           /\ IF out = Ok
              THEN /\ answer' = LlmAnswer(llm, FALSE)
                   /\ pc' = "finish"
              ELSE IF IsQuotaError(out)
                   THEN /\ pc' = "fallback"
                        /\ UNCHANGED answer
                   ELSE /\ answer' = ErrorText("generate_error", out)
                        /\ pc' = "finish"
    /\ UNCHANGED <<cacheVars, env, health, buildOk, llmCache, req, ctx, llm, result>>

\* _generate_answer, lines 1235-1239: the provider named as the fallback
FallbackProvider(e) ==
    IF e.provider = "auto" THEN e.fallback
    ELSE IF e.provider \in {"anthropic", "claude"} THEN "openai" ELSE "anthropic"

\* _generate_answer, lines 1242-1245: the model asked of _get_llm
FallbackModel(e) == ProviderModel(e.profile, FallbackProvider(e), "COMPLEX")

\* a variant of FallbackAnswer that surfaces the second error by itself
FallbackAnswerRaw(client, outcome) ==
    IF outcome = Ok THEN LlmAnswer(client, FALSE)
    ELSE ErrorText("generate_error", outcome)

\* _generate_answer, lines 1247-1255: the answer after the failover attempt
FallbackAnswer(client, outcome) ==
    IF outcome = Ok THEN LlmAnswer(client, FALSE) ELSE Text("both_failed")

\* a variant of AfterFallback that attempts the failover again when it failed
AfterFallbackRetry(outcome) == IF outcome = Ok THEN "finish" ELSE "fallback"

\* _generate_answer, lines 1253-1255: whatever the failover attempt raised is
\* caught, and the answer goes on to the footer
AfterFallback(outcome) == "finish"

\* _generate_answer, lines 1233-1255: the failover attempt
GenFallback ==
    /\ UNCHANGED <<searchVars, indexVars>>
    /\ pc = "fallback"
    /\ LET fallback_model == FallbackModel(env)
           r == LruGetLlm(llmCache, env, buildOk, fallback_model)
           out == Invoke(health, env, r.client)
       IN  /\ llmCache' = LruAfter(llmCache, fallback_model, r)
           /\ IF ~r.ok
              THEN /\ answer' = FallbackAnswer(NoClient, MsgNoModel)
                   /\ UNCHANGED calls
              ELSE /\ calls' = Append(calls, Call("fallback", r.client, out))
                   /\ answer' = FallbackAnswer(r.client, out)
           /\ pc' = AfterFallback(IF r.ok THEN out ELSE MsgNoModel)
    /\ UNCHANGED <<cacheVars, env, health, buildOk, req, ctx, llm, result>>

\* _generate_answer, lines 1260-1291, and ask, lines 1360-1375: the source
\* footer is appended, the result is stored in the cache and returned
AskFinish ==
    /\ UNCHANGED <<searchVars, indexVars>>
    /\ pc = "finish"
    /\ LET final == [answer EXCEPT !.footer = ctx.sourced]
       IN  /\ answer' = final
           /\ DoSet(ReqTuple(req), [answer |-> final, source_type |-> ctx.doc_type])
           /\ result' = Returned(final, ctx.doc_type, FALSE)
    /\ pc' = "done"
    /\ UNCHANGED <<env, health, buildOk, llmCache, req, ctx, llm, calls>>

InitAsk ==
    /\ cfg = [enabled |-> TRUE, backend |-> "memory"]
    /\ EmptyCache
    /\ env \in Envs
    /\ health \in [Providers -> {Ok} \cup ProviderErrors]
    /\ buildOk \in [Providers -> BOOLEAN]
    /\ llmCache = {}
    /\ req = NoReq
    /\ pc = "idle"
    /\ ctx = NoCtx
    /\ llm = NoClient
    /\ answer = NoAnswer
    /\ calls = <<>>
    /\ result = NoResult
    /\ NoSearch
    /\ NoIndex

NextAsk ==
    \/ \E r \in Requests : AskStart(r[1], r[2], r[3])
    \/ \E kb \in KbOutcomes, nf \in BOOLEAN : AskPersonalFirst(kb, nf)
    \/ \E kb \in KbOutcomes, nf \in BOOLEAN : AskPersonalMode(kb, nf)
    \/ \E b \in BusinessOutcomes : AskBusiness(b)
    \/ \E n \in SearchCounts, sourced \in BOOLEAN : AskSearch(n, sourced)
    \/ GenGetLlm
    \/ GenInvoke
    \/ GenFallback
    \/ AskFinish

SpecAsk == InitAsk /\ [][NextAsk]_vars

\* reload, lines 1504-1509: under self._lock the three indexes are dropped
\* and the lru_cache of _get_llm is emptied
ReloadReset ==
    /\ reloading = "idle"
    /\ reloading' = "reset"
    /\ llmCache' = {}
    /\ UNCHANGED <<cacheVars, indexVars, epoch>>
    /\ UNCHANGED <<top_k, reranker, variants, vi, stage, nhits, results, seen, found>>
    /\ UNCHANGED <<env, health, buildOk, req, pc, ctx, llm, answer, calls, result>>

\* reload, line 1511: initialize builds the indexes again
ReloadInitialize ==
    /\ reloading = "reset"
    /\ reloading' = "initialized"
    /\ epoch' = epoch + 1
    /\ UNCHANGED <<cacheVars, askVars, indexVars>>
    /\ UNCHANGED <<top_k, reranker, variants, vi, stage, nhits, results, seen, found>>

\* reload, lines 1512-1514: the query cache is cleared and reload returns
ReloadClear ==
    /\ reloading = "initialized"
    /\ reloading' = "done"
    /\ DoClear
    /\ UNCHANGED <<askVars, indexVars, epoch>>
    /\ UNCHANGED <<top_k, reranker, variants, vi, stage, nhits, results, seen, found>>

\* one ask running while another thread calls reload
NextReload ==
    \/ NextAsk
    \/ ReloadReset
    \/ ReloadInitialize
    \/ ReloadClear

SpecReload == InitAsk /\ [][NextReload]_vars

----------------------------------------------------------------------------
(* CategorizedQASystem._search *)

\* Bounds of the search model
MaxTopK == 2
MaxVariants == 2
TopN == 2
RetrieverK == 2

\* a document's content, as its first 200 characters and the rest
Contents ==
    { [head |-> 1, tail |-> 1], [head |-> 1, tail |-> 2],
      [head |-> 2, tail |-> 1], [head |-> 3, tail |-> 1] }

\* hash(content[:200])
Fingerprint(content) == <<"hash", content.head>>

\* SearchResult(content, score, metadata.match_type); scores are in tenths
SearchResult(content, score, match_type) ==
    [content |-> content, score |-> score, match_type |-> match_type]

Take(seq, n) == SubSeq(seq, 1, IF Len(seq) < n THEN Len(seq) ELSE n)

\* a variant of Dedup that does not record the fingerprint it appends
DedupForgetful(res, sn, r) ==
    IF Fingerprint(r.content) \notin sn
    THEN [results |-> Append(res, r), seen |-> sn]
    ELSE [results |-> res, seen |-> sn]

\* _search, lines 1099-1116 / 1125-1134 / 1146-1155: a hit is appended
\* unless the fingerprint of its content has been seen
Dedup(res, sn, r) ==
    IF Fingerprint(r.content) \notin sn
    THEN [results |-> Append(res, r), seen |-> sn \cup {Fingerprint(r.content)}]
    ELSE [results |-> res, seen |-> sn]

AddHit(r) ==
    LET d == Dedup(results, seen, r)
    IN  /\ results' = d.results
        /\ seen' = d.seen
        /\ nhits' = nhits + 1

SearchFrame ==
UNCHANGED <<cacheVars, askVars, indexVars, top_k, reranker, variants,
                epoch, reloading>>

\* _search, lines 1092-1118: one (doc_id, score) pair of the keyword
\* index; fetching the document may find nothing or raise, and the score is
\* doubled, and doubled again when the content holds an extracted model
KeywordHit(c, fetched, bonus) ==
    /\ stage = "keyword"
    /\ nhits < top_k
    /\ IF fetched
       THEN AddHit(SearchResult(c, 10 * 2 * bonus, "keyword"))
       ELSE /\ nhits' = nhits + 1
            /\ UNCHANGED <<results, seen>>
    /\ UNCHANGED <<vi, stage, found>>
    /\ SearchFrame

\* _search, lines 1092-1093: the call of KeywordIndex.search stands outside
\* any try block, so what it raises leaves _search
KeywordRaise ==
    /\ stage = "keyword"
    /\ nhits = 0
    /\ stage' = "raised"
    /\ UNCHANGED <<vi, nhits, results, seen, found>>
    /\ SearchFrame

\* _search, lines 1121-1136: one document of bm25_docs[:top_k]
Bm25Hit(c) ==
    /\ stage = "bm25"
    /\ nhits < top_k
    /\ AddHit(SearchResult(c, 15, "bm25"))
    /\ UNCHANGED <<vi, stage, found>>
    /\ SearchFrame

\* _search, lines 1139-1157: one (doc, distance) pair of the vector store
VectorHit(c, dist) ==
    /\ stage = "vector"
    /\ nhits < RetrieverK
    /\ AddHit(SearchResult(c, 10 \div (1 + dist), "vector"))
    /\ UNCHANGED <<vi, stage, found>>
    /\ SearchFrame

\* the current backend has no more hits (or is absent; or, for BM25 and the
\* vector store, raised inside its try block before returning any): the
\* next backend, the next variant, or the rerank
BackendDone ==
    /\ stage \in {"keyword", "bm25", "vector"}
    /\ nhits' = 0
    /\ IF stage = "keyword" THEN stage' = "bm25" /\ vi' = vi
       ELSE IF stage = "bm25" THEN stage' = "vector" /\ vi' = vi
       ELSE IF vi < variants THEN stage' = "keyword" /\ vi' = vi + 1
       ELSE stage' = "rerank" /\ vi' = vi
    /\ UNCHANGED <<results, seen, found>>
    /\ SearchFrame

\* sequences of distinct indices of seq
Orders(seq) ==
    { o \in UNION { [1..n -> 1..Len(seq)] : n \in 0..Len(seq) } :
        \A i, j \in DOMAIN o : i # j => o[i] # o[j] }

\* a variant of rerank whose except branch returns the results untruncated
rerankUncut(rtype, res, order, failed) ==
    IF res = <<>> THEN res
    ELSE IF rtype = "none" THEN Take(res, TopN)
    ELSE IF failed THEN res
    ELSE Take([i \in DOMAIN order |-> res[order[i]]], TopN)

\* Reranker.rerank(query, results): order is the ranking the backend gives
\* (a permutation for the local cross-encoder, a ranked selection for
\* Cohere), failed tells that the backend call raised
rerank(rtype, res, order, failed) ==
    IF res = <<>> THEN res
    ELSE IF rtype = "none" \/ failed THEN Take(res, TopN)
    ELSE Take([i \in DOMAIN order |-> res[order[i]]], TopN)

\* _search, lines 1159-1165: rerank, then truncate to top_k
SearchReturn(order, failed) ==
    /\ stage = "rerank"
    /\ reranker = "local" => Len(order) = Len(results)
    /\ reranker = "none" => (order = <<>> /\ ~failed)
    /\ LET reranked == IF results # <<>>
                       THEN rerank(reranker, results, order, failed)
                       ELSE results
       IN  /\ results' = reranked
           /\ found' = Take(reranked, top_k)
    /\ stage' = "done"
    /\ UNCHANGED <<vi, nhits, seen>>
    /\ SearchFrame

InitSearch ==
    /\ cfg = [enabled |-> TRUE, backend |-> "memory"]
    /\ EmptyCache
    /\ NoAsk
    /\ NoIndex
    /\ top_k \in 1..MaxTopK
    /\ reranker \in {"none", "local", "cohere"}
    /\ variants \in 1..MaxVariants
    /\ vi = 1
    /\ stage = "keyword"
    /\ nhits = 0
    /\ results = <<>>
    /\ seen = {}
    /\ found = <<>>
    /\ epoch = 0
    /\ reloading = "idle"

NextSearch ==
    \/ \E c \in Contents, fetched \in BOOLEAN, bonus \in 1..2 : KeywordHit(c, fetched, bonus)
    \/ KeywordRaise
    \/ \E c \in Contents : Bm25Hit(c)
    \/ \E c \in Contents, dist \in 0..1 : VectorHit(c, dist)
    \/ BackendDone
    \/ \E order \in Orders(results), failed \in BOOLEAN : SearchReturn(order, failed)

SpecSearch == InitSearch /\ [][NextSearch]_vars

\* C6: the list _search returns has at most top_k results, and no two of
\* them have the same content fingerprint.
C6_SearchDedupAndTopK ==
    stage = "done" =>
        /\ Len(found) <= top_k
        /\ \A i, j \in 1..Len(found) :
              i # j => Fingerprint(found[i].content) # Fingerprint(found[j].content)

\* C6 witness: the backends returned two documents with the same first 200
\* characters and more distinct documents than top_k, and _search returned
C6_Witness ==
    /\ stage = "done"
    /\ Len(found) = top_k
    /\ Cardinality(seen) > top_k
    /\ \E i \in 1..Len(found) : found[i].match_type # "keyword"

\* C14 as claimed: whichever of the three backends raises, _search does not
\* raise.
C14_BackendFailureIsAbsorbed == stage # "raised"

\* C23: with no reranker backend, what _search returns is in descending order
\* of score, and no deduplicated result that is left out has a higher score
\* than a result that is returned.
C23_NoRerankerSortsByScore ==
    (stage = "rerank" /\ reranker = "none") =>
        LET out == Take(rerank(reranker, results, <<>>, FALSE), top_k)
        IN  /\ \A i, j \in 1..Len(out) : i < j => out[i].score >= out[j].score
            /\ \A i \in 1..Len(results) : \A j \in 1..Len(out) :
                   i > Len(out) => results[i].score <= out[j].score

\* C15: whatever ranking the backend gives and whether or not its call
\* raises, rerank returns at most top_n results, each of them one of its
\* inputs; with no backend configured, or when the call raises, it returns
\* the first top_n inputs in their order.
C15_RerankSelectsAtMostTopN ==
    stage = "rerank" =>
        \A order \in Orders(results), failed \in BOOLEAN :
            LET r == rerank(reranker, results, order, failed)
            IN  /\ Len(r) <= TopN
                /\ \A i \in 1..Len(r) : \E j \in 1..Len(results) : r[i] = results[j]
                /\ (reranker = "none" \/ failed) => r = Take(results, TopN)

\* C15 witness: rerank is called with a backend configured and more than
\* top_n results
C15_Witness ==
    /\ stage = "rerank"
    /\ reranker # "none"
    /\ Len(results) > TopN

\* QueryCache(config) with CACHE_BACKEND=memory
InitCache ==
    /\ cfg \in [enabled : BOOLEAN, backend : {"memory"}]
    /\ EmptyCache
    /\ NoAsk
    /\ NoSearch
    /\ NoIndex

\* QueryCache(config) with CACHE_BACKEND=file and no file on disk yet
InitCacheFile ==
    /\ cfg \in [enabled : BOOLEAN, backend : {"file"}]
    /\ EmptyCache
    /\ NoAsk
    /\ NoSearch
    /\ NoIndex

NextCache ==
    \/ \E t \in Tuples : CacheSet(t)
    \/ \E t \in Tuples : CacheGet(t)
    \/ CacheClear
    \/ Tick

SpecCache == InitCache /\ [][NextCache]_vars

SpecCacheFile == InitCacheFile /\ [][NextCache]_vars

\* callers that only store and look up, within one tick of time.time()
NextCacheWrite ==
    \/ \E t \in Tuples : CacheSet(t)
    \/ \E t \in Tuples : CacheGet(t)

SpecCacheWrite == InitCacheFile /\ [][NextCacheWrite]_vars

\* a variant of _load_file_cache that does not keep the time of the set
_load_file_cache_unstamped(f) ==
    IF f.state # "written" THEN [cache |-> <<>>, heap |-> [o \in 1..MaxObjs |-> FreeObj]]
    ELSE [cache |-> [i \in 1..Len(f.data) |->
                        [key |-> f.data[i].key, obj |-> i, ts |-> 0]],
          heap |-> [o \in 1..MaxObjs |->
                        IF o <= Len(f.data) THEN f.data[o].value ELSE FreeObj]]

\* QueryCache._load_file_cache: every [result_dict, ts] item of the file
\* becomes an entry (QueryResult(**result_dict), ts) under its key, in the
\* order of the file; a missing file leaves the cache empty and so does an
\* unreadable one, whose json.load raises inside the try block. The loaded
\* objects are numbered from 1.
_load_file_cache(f) ==
    IF f.state # "written" THEN [cache |-> <<>>, heap |-> [o \in 1..MaxObjs |-> FreeObj]]
    ELSE [cache |-> [i \in 1..Len(f.data) |->
                        [key |-> f.data[i].key, obj |-> i, ts |-> f.data[i].ts]],
          heap |-> [o \in 1..MaxObjs |->
                        IF o <= Len(f.data) THEN f.data[o].value ELSE FreeObj]]

\* QueryCache.__init__, lines 468-475, in a new process on the same file:
\* nothing of the old process is left but the file
Restart ==
    /\ cfg.backend = "file"
    /\ LET l == _load_file_cache(file)
       IN  /\ cache' = l.cache
           /\ heap' = l.heap
           /\ setValue' = l.heap
           /\ lastAccess' = [x \in { l.cache[i].key : i \in 1..Len(l.cache) } |->
                                l.cache[IndexOf(l.cache, x)].ts]
    /\ ret' = None
    /\ lastOp' = [op |-> "restart"]
    /\ UNCHANGED <<cfg, file, now, nextObj, savers>>
    /\ UNCHANGED <<askVars, searchVars, indexVars>>

\* QueryCache(config) with CACHE_BACKEND=file: there is no file yet, or there
\* is the file of an earlier run (here one that ran with a larger
\* CACHE_MAX_SIZE and stored one entry for every key at time 0)
InitCacheLoad ==
    /\ cfg \in [enabled : BOOLEAN, backend : {"file"}]
    /\ LET ks0 == { KeyOf(t) : t \in Tuples }
           ts0 == CHOOSE q \in [1..Cardinality(ks0) -> Tuples] :
                     \A i, j \in DOMAIN q : i # j => KeyOf(q[i]) # KeyOf(q[j])
           old == [i \in DOMAIN ts0 |->
                     [key |-> KeyOf(ts0[i]),
                      value |-> [answer |-> ts0[i], from_cache |-> FALSE],
                      ts |-> 0]]
       IN  /\ file \in {NoFile, FileWith(old)}
           /\ cache = _load_file_cache(file).cache
           /\ heap = _load_file_cache(file).heap
           /\ setValue = heap
           /\ nextObj = Len(cache) + 1
           /\ lastAccess = [x \in { cache[i].key : i \in 1..Len(cache) } |-> 0]
    /\ now = 0
    /\ ret = None
    /\ lastOp = NoOp
    /\ savers = [th \in Threads |-> IdleSaver]
    /\ NoAsk
    /\ NoSearch
    /\ NoIndex

NextCacheLoad ==
    \/ NextCache
    \/ Restart

SpecCacheLoad == InitCacheLoad /\ [][NextCacheLoad]_vars

\* one user's callers, who store and look up as time passes, and restarts
\* of the process
NextCacheRestart ==
    \/ \E t \in Tuples : t[3] = <<"z">> /\ CacheSet(t)
    \/ \E t \in Tuples : t[3] = <<"z">> /\ CacheGet(t)
    \/ Tick
    \/ Restart

SpecCacheRestart == InitCacheFile /\ [][NextCacheRestart]_vars

\* QueryCache.set on thread th, lines 498-509: the part under self._lock,
\* which evicts and stores the entry
SetStore(th, t) ==
    /\ cfg.enabled
    /\ cfg.backend = "file"
    /\ savers[th].pc = "idle"
    /\ nextObj <= MaxObjs
    /\ LET k == KeyOf(t)
           obj == nextObj
           val == [answer |-> t, from_cache |-> FALSE]
           h1 == [heap EXCEPT ![obj] = val]
       IN  /\ nextObj' = nextObj + 1
           /\ lastOp' = [op |-> "set", tuple |-> t, evicted |-> SetEvictKey(cache)]
           /\ cache' = SetCache(cache, k, obj, now)
           /\ heap' = Collect(h1, cache', None)
           /\ setValue' = [o \in 1..MaxObjs |->
                             IF o \notin Reachable(cache', None) THEN FreeObj
                             ELSE IF o = obj THEN val ELSE setValue[o]]
           /\ lastAccess' = Accessed(lastAccess, cache', k, now)
    /\ savers' = [savers EXCEPT ![th].pc = "stored"]
    /\ UNCHANGED <<cfg, file, now, ret>>
    /\ UNCHANGED <<askVars, searchVars, indexVars>>

\* _save_file_cache on thread th, lines 527-529, called by set after it
\* released the lock: data is built from self.cache as it is now
SaveSnapshot(th) ==
    /\ savers[th].pc = "stored"
    /\ savers' = [savers EXCEPT ![th].pc = "dumped", ![th].data = Snapshot(cache, heap)]
    /\ UNCHANGED <<cfg, cache, heap, nextObj, file, now, ret, lastOp, setValue, lastAccess>>
    /\ UNCHANGED <<askVars, searchVars, indexVars>>

\* _save_file_cache on thread th, lines 530-533: the file is opened for
\* writing and data is dumped into it; a failure is logged and swallowed;
\* set then returns None
SaveWrite(th) ==
    /\ savers[th].pc = "dumped"
    /\ \E f \in {FileWith(savers[th].data), file, CorruptFile} :
           /\ file' = f
           /\ savers' = [savers EXCEPT
                            ![th].pc = "idle",
                            ![th].data = <<>>,
                            ![th].failed = @ \/ f # FileWith(savers[th].data)]
    /\ ret' = None
    /\ UNCHANGED <<cfg, cache, heap, nextObj, now, lastOp, setValue, lastAccess>>
    /\ UNCHANGED <<askVars, searchVars, indexVars>>

\* request handlers storing answers at the same time
NextCacheRace ==
    \/ \E th \in Threads, t \in Tuples : SetStore(th, t)
    \/ \E th \in Threads : SaveSnapshot(th)
    \/ \E th \in Threads : SaveWrite(th)

SpecCacheRace == InitCacheFile /\ [][NextCacheRace]_vars

----------------------------------------------------------------------------
(* Properties of QueryCache, checked under SpecCache *)

\* a step of QueryCache.get for the tuple recorded in lastOp'
IsGetStep == lastOp'.op = "get" /\ now' = now

\* a step of QueryCache.set for the tuple recorded in lastOp'
IsSetStep == lastOp'.op = "set" /\ nextObj' = nextObj + 1

\* C7: with the cache enabled, set stores the result under the key with the
\* current time as its timestamp; a get of a key whose entry is younger than
\* ttl returns the stored object and keeps the entry; a get of a key whose
\* entry has age ttl or more returns None and removes the entry.
C7_RoundTripWithinTtl ==
    [][ /\ (IsSetStep /\ cfg.enabled) =>
             LET k == KeyOf(lastOp'.tuple)
                 i == IndexOf(cache', k)
             IN  /\ i # 0
                 /\ cache'[i].ts = now
                 /\ cache'[i].obj = nextObj
                 /\ heap'[nextObj].answer = lastOp'.tuple
        /\ (IsGetStep /\ cfg.enabled) =>
             LET k == KeyOf(lastOp'.tuple)
                 i == IndexOf(cache, k)
             IN  i # 0 =>
                   IF now - cache[i].ts < TTL
                   THEN /\ ret' = cache[i].obj
                        /\ cache' = cache
                        /\ heap'[ret'].answer = setValue[cache[i].obj].answer
                   ELSE /\ ret' = None
                        /\ ~HasKey(cache', k)
      ]_vars

\* C7 witness: a get found an entry of age ttl or more and dropped it
C7_Witness ==
    /\ lastOp.op = "get"
    /\ lastOp.outcome = "expired"
    /\ ret = None
    /\ ~HasKey(cache, KeyOf(lastOp.tuple))
    /\ now >= TTL

C27_SizeAtMostMaxSize == Len(cache) <= MaxSize

\* C28 (as claimed): with CACHE_BACKEND=file, once the set calls running at
\* the same time have all returned, none of them having failed to write, the
\* cache file holds every entry that is in the in-memory cache.
C28_FileHoldsEveryEntry ==
    (/\ cfg.enabled
     /\ \A th \in Threads : savers[th].pc = "idle" /\ ~savers[th].failed
     /\ cache # <<>>)
        => /\ file.state = "written"
           /\ \A i \in 1..Len(cache) :
                  \E j \in 1..Len(file.data) : file.data[j].key = cache[i].key

\* C29: a set of a key that is already present, made while the cache holds
\* max_size entries, leaves every other key in the cache and stores the new
\* result under the key.
C29_ReplaceEvictsNothing ==
    [][ (/\ IsSetStep /\ cfg.enabled
         /\ Len(cache) >= MaxSize
         /\ HasKey(cache, KeyOf(lastOp'.tuple))) =>
            /\ \A i \in 1..Len(cache) : HasKey(cache', cache[i].key)
            /\ Len(cache') = Len(cache)
            /\ cache'[IndexOf(cache', KeyOf(lastOp'.tuple))].obj = nextObj
      ]_vars

\* C17: with the file backend, a set whose write of the cache file failed has
\* still stored the new entry under its key with the current time, and a
\* get of the same tuple that follows at once returns the stored object.
C17_SetSurvivesFailedWrite ==
    [][ /\ (IsSetStep /\ cfg.enabled /\ cfg.backend = "file") =>
             LET t == lastOp'.tuple
                 k == KeyOf(t)
                 h1 == [heap EXCEPT ![nextObj] = [answer |-> t, from_cache |-> FALSE]]
                 c1 == SetCache(cache, k, nextObj, now)
             IN  file' # FileWith(Snapshot(c1, h1)) =>
                    /\ HasKey(cache', k)
                    /\ cache'[IndexOf(cache', k)].obj = nextObj
                    /\ cache'[IndexOf(cache', k)].ts = now
        /\ (/\ IsGetStep /\ cfg.enabled /\ cfg.backend = "file"
            /\ lastOp.op = "set" /\ lastOp.tuple = lastOp'.tuple
            /\ file # FileWith(Snapshot(cache, heap))) =>
             LET i == IndexOf(cache, KeyOf(lastOp.tuple))
             IN  /\ i # 0
                 /\ cache[i].ts = now => ret' = cache[i].obj
      ]_vars

\* C17 witness: the last write of the cache file failed and left it
\* unreadable, and the get that followed the set was a hit
C17_Witness ==
    /\ cfg.enabled /\ cfg.backend = "file"
    /\ file = CorruptFile
    /\ lastOp.op = "get"
    /\ lastOp.outcome = "hit"
    /\ ret # None

C9_HitIsACopy ==
    \A i \in 1..Len(cache) : heap[cache[i].obj] = setValue[cache[i].obj]

\* C10 as claimed: a get that hits returns a value that set stored under the
\* same (query, mode, userId) tuple.
C10_KeySeparatesTuples ==
    (lastOp.op = "get" /\ ret # None) => heap[ret].answer = lastOp.tuple

----------------------------------------------------------------------------
(* Properties of the completion router and of ask, checked under SpecAsk *)

\* the messages the code classifies as quota / rate-limit failures, and
\* those it does not
QuotaMessages == {MsgUsageLimits, MsgQuota, MsgRateLimit}

OtherMessages == {MsgTimeout, MsgNoModel}

Done == pc = "done"

\* the calls of the running ask made to provider p
CallsTo(p) == { i \in 1..Len(calls) : calls[i].provider = p }

\* the calls made by _generate_answer
GenCalls == { i \in 1..Len(calls) : calls[i].site \in {"generate", "fallback"} }

\* the slot of the request that _generate_answer serves
RequestSlot == TierOf(ctx.doc_type, estimate_complexity(req.query, ctx.count))

\* C1 as claimed: in auto mode with distinct primary and fallback, when a
\* completion call to the primary fails with a quota error and the fallback
\* provider is healthy, ask returns the fallback provider's answer, given by
\* the fallback provider's model for the slot of the request, and the
\* fallback provider is invoked exactly once.
C1_FailoverUsesFallback ==
    (/\ Done
     /\ env.provider = "auto"
     /\ env.primary # env.fallback
     /\ buildOk[env.primary] /\ buildOk[env.fallback]
     /\ health[env.fallback] = Ok
     /\ \E i \in GenCalls : /\ calls[i].provider = env.primary
                            /\ calls[i].outcome \in QuotaMessages)
    => /\ result.kind = "returned"
       /\ result.answer.kind = "llm"
       /\ result.answer.provider = env.fallback
       /\ result.answer.model = ProviderModel(env.profile, env.fallback, RequestSlot)
       /\ Cardinality(CallsTo(env.fallback)) = 1

\* C2: a completion call that fails with an error that is not classified as
\* quota / rate-limit is the last completion call of the ask, in either
\* routing mode; when it is the first call of _generate_answer or the call of
\* the personal path that answers, ask returns normally and the answer is
\* the text of that error.
C2_OtherErrorIsSurfaced ==
    /\ \A i \in 1..Len(calls) :
          calls[i].outcome \in OtherMessages => i = Len(calls)
    /\ \A i \in 1..Len(calls) :
          (Done /\ calls[i].outcome \in OtherMessages /\ calls[i].site # "fallback")
          => /\ result.kind = "returned"
             /\ result.answer.kind \in {"generate_error", "query_failed"}
             /\ result.answer.msg = calls[i].outcome

\* C2 witness: the first call of _generate_answer failed with a timeout and
\* the ask returned
C2_Witness ==
    /\ Done
    /\ Len(calls) = 1
    /\ calls[1].site = "generate"
    /\ calls[1].outcome = MsgTimeout
    /\ result.kind = "returned"
    /\ result.answer.kind = "generate_error"

\* C3 as claimed: in single-provider mode a failed completion call is
\* followed by no further completion call.
C3_SingleModeNeverRetries ==
    env.provider # "auto" =>
        \A i \in 1..Len(calls) : calls[i].outcome # Ok => i = Len(calls)

\* C3 amended: in single-provider mode a completion call that fails with an
\* error that is not classified as quota / rate-limit is followed by no
\* further call; a failed call that is followed by another is the first call
\* of _generate_answer failing with a quota / rate-limit error, and it is
\* followed by exactly one call, the failover attempt.
C3_SingleModeOneFailover ==
    env.provider # "auto" =>
        \A i \in 1..Len(calls) :
            (calls[i].outcome # Ok /\ i < Len(calls))
            => /\ calls[i].site = "generate"
               /\ calls[i].outcome \in QuotaMessages
               /\ Len(calls) = i + 1
               /\ calls[i + 1].site = "fallback"
               /\ pc \in {"finish", "done"}

\* C3 witness: single-provider mode, the quota failure of the first call was
\* followed by the failover attempt, and the ask returned
C3_Witness ==
    /\ Done
    /\ env.provider # "auto"
    /\ Len(calls) >= 2
    /\ calls[Len(calls) - 1].outcome \in QuotaMessages
    /\ calls[Len(calls)].site = "fallback"
    /\ result.kind = "returned"

\* C4: _generate_answer makes at most two completion calls, the second one
\* being the failover attempt; when both fail, ask returns normally and the
\* answer is the combined failure message.
C4_AtMostOneFailover ==
    /\ Cardinality(GenCalls) <= 2
    /\ \A i \in GenCalls : calls[i].site = "fallback" => i = Len(calls)
    /\ (Done /\ Cardinality(GenCalls) = 2 /\ \A i \in GenCalls : calls[i].outcome # Ok)
       => /\ result.kind = "returned"
          /\ result.answer.kind = "both_failed"

\* C4 witness: both calls of _generate_answer failed and the ask returned the
\* combined failure message
C4_Witness ==
    /\ Done
    /\ Cardinality(GenCalls) = 2
    /\ \A i \in GenCalls : calls[i].outcome # Ok
    /\ result.kind = "returned"
    /\ result.answer.kind = "both_failed"

\* C21: no entry of the query cache holds an answer that is the error text
\* of a failed completion call.
C21_NoErrorAnswerIsCached ==
    \A i \in 1..Len(cache) :
        heap[cache[i].obj].answer.answer.kind \notin {"generate_error", "both_failed"}

\* C22: for every tier, the slot that _get_llm infers for the model name
\* configured for that tier is the tier itself, and the model it picks for the
\* fallback provider is the fallback provider's model of that tier.
C22_SlotIsStable ==
    \A sl \in Slots :
        LET m == LlmModelEnv(env, sl)
        IN  /\ _infer_slot(env, m) = sl
            /\ env.provider = "auto" =>
                   _pick_model_for(env, env.fallback, _infer_slot(env, m), m)
                       = ProviderModel(env.profile, env.fallback, sl)

\* C24: once reload has returned, the query cache holds no answer that ask
\* generated from a search of the indexes that reload replaced.
C24_NoStaleAnswerAfterReload ==
    (reloading = "done" /\ cache # <<>> /\ ctx.count > 0) => ctx.epoch = epoch

\* the step of ask in which _search returned no result
IsEmptySearchStep == pc = "classify" /\ ctx' # ctx /\ ctx'.count = 0

C20_ProviderAnswerIsCached ==
    (/\ pc = "done"
     /\ cfg.enabled
     /\ result.kind = "returned"
     /\ ~result.from_cache
     /\ result.answer.kind = "llm") =>
        LET k == KeyOf(ReqTuple(req))
        IN  /\ HasKey(cache, k)
            /\ IsFresh(now, cache[IndexOf(cache, k)].ts)
            /\ heap[cache[IndexOf(cache, k)].obj].answer.answer = result.answer

\* C18: in auto mode with both providers configured, the resolved primary
\* provider differs from the resolved fallback provider.
C18_PrimaryDiffersFromFallback ==
    (env.provider = "auto" /\ buildOk["anthropic"] /\ buildOk["openai"]) =>
        env.primary # env.fallback

\* C16 as claimed: for the query and result count of a request that reached
\* answer generation, estimate_complexity is complex exactly when the query
\* is longer than query_length, or holds more product codes than
\* model_count, or holds a comparison or an analysis keyword, or the result
\* count is greater than doc_count.
C16_ComplexIffSignalExceeds ==
    pc \in {"invoke", "fallback", "finish"} =>
        (estimate_complexity(req.query, ctx.count) = "complex"
         <=> \/ req.query.len > query_length
             \/ req.query.products > model_count
             \/ req.query.cmp
             \/ req.query.ana
             \/ ctx.count > doc_count_threshold)

\* C5 as claimed: ask always hands its caller a result and never an
\* exception.
C5_AskNeverRaises ==
    Done => result.kind = "returned"

----------------------------------------------------------------------------
(* KeywordIndex *)

\* Bound: the number of add_document calls of a behaviour
MaxAdds == 2

Weights == {1, 2}

\* keywords as _extract_keywords returns them: short matches upper-cased,
\* longer ones in the case of the text
KwQRL == <<"Q", "R", "L">>
KwQrl == <<"q", "r", "l">>
KwQRLQ == <<"Q", "R", "L", "Q">>
KwRL == <<"R", "L">>

Keywords == {KwQRL, KwQrl, KwQRLQ, KwRL}

\* list(keywords) of one add_document call
KeywordSets == { S \in SUBSET Keywords : Cardinality(S) \in 1..2 }

\* all_terms of a search call: lower-cased query keywords and query words
TermQrl == <<"q", "r", "l">>
TermRl == <<"r", "l">>

QueryTermSets == { {TermQrl}, {TermQrl, TermRl} }

\* position of key kw in the dict, 0 when absent
KwIndex(ix, kw) ==
    IF \E i \in 1..Len(ix) : ix[i].kw = kw
    THEN CHOOSE i \in 1..Len(ix) : ix[i].kw = kw
    ELSE 0

\* add_document, line 386: existing[0], the first pair of the posting list
\* that holds doc_id, 0 when there is none
PostIndex(posts, doc_id) ==
    IF \E i \in 1..Len(posts) : posts[i][1] = doc_id
    THEN CHOOSE i \in 1..Len(posts) :
            /\ posts[i][1] = doc_id
            /\ \A j \in 1..(i - 1) : posts[j][1] # doc_id
    ELSE 0

\* a variant of UpsertPosting that appends without looking for the document
AppendPosting(posts, doc_id, weight) == Append(posts, <<doc_id, weight>>)

\* add_document, lines 386-390: replace the document's pair or append one
UpsertPosting(posts, doc_id, weight) ==
    IF PostIndex(posts, doc_id) # 0
    THEN [posts EXCEPT ![PostIndex(posts, doc_id)] = <<doc_id, weight>>]
    ELSE Append(posts, <<doc_id, weight>>)

\* add_document, lines 381-390: the loop body for one keyword
AddKeyword(ix, kw, doc_id, weight) ==
    LET kw_lower == Lower(kw)
        ix1 == IF KwIndex(ix, kw_lower) = 0
               THEN Append(ix, [kw |-> kw_lower, posts |-> <<>>])
               ELSE ix
        k == KwIndex(ix1, kw_lower)
    IN  [ix1 EXCEPT ![k].posts = UpsertPosting(ix1[k].posts, doc_id, weight)]

\* the sum of the weights a posting list holds for a document
RECURSIVE SumW(_, _)
SumW(posts, d) ==
    IF posts = <<>> THEN 0
    ELSE (IF posts[1][1] = d THEN posts[1][2] ELSE 0) + SumW(Tail(posts), d)

\* search, lines 424-425 / 430-431: every pair of a posting list adds
\* factor * weight to its document
AddPosts(sc, posts, factor) == [d \in Docs |-> sc[d] + factor * SumW(posts, d)]

\* search, lines 422-425: the exact match of a term
ScoreExact(ix, term, sc) ==
    IF KwIndex(ix, term) = 0 THEN sc
    ELSE AddPosts(sc, ix[KwIndex(ix, term)].posts, 2)

\* search, line 429: the partial-match test
PartialMatch(term, indexed_kw) ==
    Len(term) >= 3 /\ (Contains(indexed_kw, term) \/ Contains(term, indexed_kw))

\* search, lines 428-431: one entry of self.index.items()
ScorePartial(entry, term, sc) ==
    IF PartialMatch(term, entry.kw) THEN AddPosts(sc, entry.posts, 1) ELSE sc

RECURSIVE ScorePartials(_, _, _, _)
ScorePartials(ix, term, sc, i) ==
    IF i > Len(ix) THEN sc
    ELSE ScorePartials(ix, term, ScorePartial(ix[i], term, sc), i + 1)

\* search, lines 412-431, run with no other thread in between: doc_scores
RECURSIVE ScoreTerms(_, _, _)
ScoreTerms(ix, todo, sc) ==
    IF todo = {} THEN sc
    ELSE LET term == CHOOSE t \in todo : TRUE
         IN  ScoreTerms(ix, todo \ {term},
                        ScorePartials(ix, term, ScoreExact(ix, term, sc), 1))

search(ix, terms) == ScoreTerms(ix, terms, [d \in Docs |-> 0])

\* search, lines 424 / 430: a document enters the dict doc_scores when it is
\* scored for the first time; order is the key order of doc_scores
ScoredOrder(order, posts) ==
    order \o SelectSeq([i \in 1..Len(posts) |-> posts[i][1]],
                       LAMBDA d : \A j \in 1..Len(order) : order[j] # d)

\* search, line 432: sorted(doc_scores.items(), key=score, reverse=True), a
\* stable sort, so equal scores keep the key order of doc_scores
sorted(order, sc) ==
    [r \in 1..Len(order) |->
        LET i == CHOOSE p \in 1..Len(order) :
                    Cardinality({ j \in 1..Len(order) :
                        \/ sc[order[j]] > sc[order[p]]
                        \/ sc[order[j]] = sc[order[p]] /\ j < p }) = r - 1
        IN  <<order[i], sc[order[i]]>>]

IndexFrame == UNCHANGED <<cacheVars, askVars, searchVars>>

\* add_document, lines 377-378: keywords are extracted, the lock is taken
AddBegin(t, doc_id, kws, weight) ==
    /\ adders[t].pc = "idle"
    /\ lock = "free"
    /\ nadds < MaxAdds
    /\ lock' = t
    /\ nadds' = nadds + 1
    /\ adders' = [adders EXCEPT ![t] =
                    [pc |-> "adding", doc |-> doc_id, w |-> weight, todo |-> kws,
                     done |-> {}, replaced |-> FALSE]]
    /\ UNCHANGED <<index, doc_keywords, ks>>
    /\ IndexFrame

\* add_document, lines 380-390: doc_keywords is set and one keyword of the
\* loop is handled, inside the lock
AddStep(t, kw) ==
    /\ adders[t].pc = "adding"
    /\ lock = t
    /\ kw \in adders[t].todo
    /\ LET a == adders[t]
           k == KwIndex(index, Lower(kw))
           e == IF k = 0 THEN 0 ELSE PostIndex(index[k].posts, a.doc)
       IN  /\ index' = AddKeyword(index, kw, a.doc, a.w)
           /\ doc_keywords' = [doc_keywords EXCEPT ![a.doc] = a.todo \cup a.done]
           /\ ks' = IF ks.pc # "idle" THEN [ks EXCEPT !.stale = TRUE] ELSE ks
           /\ adders' = [adders EXCEPT ![t] =
                           [a EXCEPT !.todo = a.todo \ {kw},
                                     !.done = a.done \cup {kw},
                                     !.replaced = a.replaced \/
                                        (e # 0 /\ index[k].posts[e][2] # a.w)]]
    /\ UNCHANGED <<lock, nadds>>
    /\ IndexFrame

\* add_document: the with block ends, the lock is released
AddEnd(t) ==
    /\ adders[t].pc = "adding"
    /\ lock = t
    /\ adders[t].todo = {}
    /\ lock' = "free"
    /\ adders' = [adders EXCEPT ![t] = IdleAdder]
    /\ UNCHANGED <<index, doc_keywords, nadds, ks>>
    /\ IndexFrame

\* search, lines 414-418: the terms are computed; no lock is taken
SearchBegin(terms) ==
    /\ ks.pc = "idle"
    /\ ks' = [IdleSearch EXCEPT !.pc = "next", !.terms = terms, !.todo = terms,
                                !.stale = (lock # "free")]
    /\ UNCHANGED <<index, doc_keywords, lock, adders, nadds>>
    /\ IndexFrame

\* search, lines 420-428: the next term, its exact match, and the start of
\* the iteration over self.index.items()
SearchTerm(term) ==
    /\ ks.pc = "next"
    /\ term \in ks.todo
    /\ ks' = [ks EXCEPT !.pc = "partial", !.term = term, !.pos = 1,
                        !.size = Len(index),
                        !.scores = ScoreExact(index, term, ks.scores),
                        !.order = IF KwIndex(index, term) = 0 THEN ks.order
                                  ELSE ScoredOrder(ks.order,
                                                   index[KwIndex(index, term)].posts)]
    /\ UNCHANGED <<index, doc_keywords, lock, adders, nadds>>
    /\ IndexFrame

\* search, lines 428-431: one step of the dict iterator, which raises
\* RuntimeError when the dict has changed size since the iteration began
SearchPartial ==
    /\ ks.pc = "partial"
    /\ ks' = IF Len(index) # ks.size
             THEN [ks EXCEPT !.pc = "failed"]
             ELSE IF ks.pos > ks.size
             THEN [ks EXCEPT !.pc = "next", !.todo = ks.todo \ {ks.term}]
             ELSE [ks EXCEPT !.pos = ks.pos + 1,
                             !.scores = ScorePartial(index[ks.pos], ks.term, ks.scores),
                             !.order = IF PartialMatch(ks.term, index[ks.pos].kw)
                                       THEN ScoredOrder(ks.order, index[ks.pos].posts)
                                       ELSE ks.order]
    /\ UNCHANGED <<index, doc_keywords, lock, adders, nadds>>
    /\ IndexFrame

\* search, lines 433-434: the scores are sorted and returned
SearchEnd ==
    /\ ks.pc = "next"
    /\ ks.todo = {}
    /\ ks' = [ks EXCEPT !.pc = "done", !.ranked = sorted(ks.order, ks.scores)]
    /\ UNCHANGED <<index, doc_keywords, lock, adders, nadds>>
    /\ IndexFrame

InitIndex ==
    /\ cfg = [enabled |-> TRUE, backend |-> "memory"]
    /\ EmptyCache
    /\ NoAsk
    /\ NoSearch
    /\ NoIndex

NextIndex ==
    \/ \E t \in {"w1"}, d \in Docs, kws \in KeywordSets, w \in Weights : AddBegin(t, d, kws, w)
    \/ \E t \in {"w1"}, kw \in Keywords : AddStep(t, kw)
    \/ \E t \in {"w1"} : AddEnd(t)
    \/ \E terms \in QueryTermSets : SearchBegin(terms)
    \/ \E term \in ks.terms : SearchTerm(term)
    \/ SearchPartial
    \/ SearchEnd

SpecIndex == InitIndex /\ [][NextIndex]_vars

\* add_document calls alone, from two threads
NextIndexWrite ==
    \/ \E t \in Threads, d \in Docs, kws \in KeywordSets, w \in Weights : AddBegin(t, d, kws, w)
    \/ \E t \in Threads, kw \in Keywords : AddStep(t, kw)
    \/ \E t \in Threads : AddEnd(t)

SpecIndexWrite == InitIndex /\ [][NextIndexWrite]_vars

----------------------------------------------------------------------------
(* Properties of KeywordIndex, checked under SpecIndex *)

\* C11 as claimed: a search that runs while other threads execute
\* add_document never fails.
C11_ConcurrentSearchNeverFails == ks.pc # "failed"

\* C12: every posting list holds each document id at most once, and inside
\* an add_document call every keyword already handled has, in its posting
\* list, the pair of the document with the weight of this call (a repeated
\* add replaces the weight).
C12_OnePairPerDocument ==
    /\ \A i \in 1..Len(index) : \A m, n \in 1..Len(index[i].posts) :
          index[i].posts[m][1] = index[i].posts[n][1] => m = n
    /\ \A t \in Threads : \A kw \in adders[t].done :
          LET k == KwIndex(index, Lower(kw))
          IN  /\ k # 0
              /\ \E m \in 1..Len(index[k].posts) :
                    index[k].posts[m] = <<adders[t].doc, adders[t].w>>

\* C12 witness: an add_document call has handled all its keywords and has
\* replaced the weight an earlier call had stored for the same document
C12_Witness ==
    \E t \in Threads :
        /\ adders[t].pc = "adding"
        /\ adders[t].todo = {}
        /\ adders[t].replaced
        /\ nadds >= 2

\* the tokens a document is indexed under
DocTokens(ix, d) ==
    { ix[i].kw : i \in { j \in 1..Len(ix) : PostIndex(ix[j].posts, d) # 0 } }

\* C30: when no add_document is running, a document has a pair in the
\* posting list of a term only if the term is the lower-cased form of one of
\* the keywords that doc_keywords records for the document.
C30_PostingsMatchDocKeywords ==
    (\A t \in Threads : adders[t].pc = "idle") =>
        \A i \in 1..Len(index) : \A j \in 1..Len(index[i].posts) :
            \E kw \in doc_keywords[index[i].posts[j][1]] : Lower(kw) = index[i].kw

\* C25: after a search of an index that no add_document has touched
\* meanwhile, for every top_k the list returned is in descending order of
\* score, holds the top_k highest-scoring documents, and lists documents of
\* equal score in the order in which they were first added to the index (of
\* two documents, the one first added owns the first pair of the first key).
C25_TopKOrderedTiesByInsertion ==
    (ks.pc = "done" /\ ~ks.stale) =>
        \A k \in 1..MaxTopK :
            LET out == Take(ks.ranked, k)
            IN  /\ \A i, j \in 1..Len(out) : i < j => out[i][2] >= out[j][2]
                /\ \A i \in 1..Len(out) : \A j \in 1..Len(ks.ranked) :
                       j > Len(out) => out[i][2] >= ks.ranked[j][2]
                /\ Len(out) = IF Len(ks.order) < k THEN Len(ks.order) ELSE k
                /\ \A i, j \in 1..Len(out) :
                       (i < j /\ out[i][2] = out[j][2]) =>
                           out[i][1] = index[1].posts[1][1]

\* C13 as claimed: after a search of an index that no add_document has
\* changed since the search began, a
\* document indexed under a token equal to a query term t has a score at
\* least that of any document indexed only under tokens that are substring
\* matches of t.
C13_ExactOutranksSubstring ==
    (ks.pc = "done" /\ ~ks.stale) =>
        \A t \in ks.terms : \A a, b \in Docs :
            (/\ t \in DocTokens(index, a)
             /\ DocTokens(index, b) # {}
             /\ \A k \in DocTokens(index, b) :
                   k # t /\ (Contains(k, t) \/ Contains(t, k)))
            => ks.scores[a] >= ks.scores[b]


====
